---- MODULE Spec2Model ----
(***************************************************************************)
(* Model of scripts/setup.ts, the one-time interactive setup script of the *)
(* bun-typescript-starter template.                                        *)
(*                                                                         *)
(* Strings are sequences of one-character strings, so that trim, split,    *)
(* toLowerCase and replaceAll are computed character by character.         *)
(* The source file holds two revisions of the script: the first (lines     *)
(* 1-184) without the GitHub phase, the second (lines 186-650) with it.    *)
(* The variable variant selects the revision a run executes.               *)
(***************************************************************************)
EXTENDS Integers, Sequences, FiniteSets, TLC

VARIABLES
    pc,                  \* position of run() in the script
    variant,             \* 1: first revision, 2: revision with the GitHub phase
    fs,                  \* the files the script touches
    rlOpen,              \* the readline interface rl is open
    exitCode,            \* process exit status, NotExited while running
    packageName,
    defaultRepoName,
    repoName,
    defaultGithubUser,
    githubUser,
    description,
    author,
    replacements,        \* the replacement table, in Object.entries order
    origin,              \* the git remote 'origin': "none", "template", "own"
    npmToken,            \* process.env.NPM_TOKEN is set
    githubConfigured,
    npmTokenConfigured,
    cfgResult,           \* value returned by configureGitHub
    steps,               \* headings pushed on the next-steps list
    stepNum,
    proceed,             \* answer to 'Continue anyway? (y/N)', <<>> before it
    confirm,             \* answer to 'Proceed with setup? (Y/n)'
    setupGitHub,         \* answer to 'Create GitHub repo and configure settings? (Y/n)'
    log,                 \* commands spawned and file operations performed, in order
    fnIn,                \* argument of a helper function applied on its own
    fnOut,               \* its result
    fnPc

answerVars == <<packageName, defaultRepoName, repoName, defaultGithubUser,
                githubUser, description, author, replacements>>
ghVars == <<origin, npmToken, githubConfigured, npmTokenConfigured, cfgResult>>
sumVars == <<steps, stepNum>>
fnVars == <<fnIn, fnOut, fnPc>>
vars == <<pc, variant, fs, rlOpen, exitCode, answerVars, proceed, confirm,
          setupGitHub, ghVars, sumVars, log, fnVars>>

(***************************************************************************)
(* Bounds of the model.                                                    *)
(***************************************************************************)
MaxLineLen == 3      \* longest input line typed at a prompt (question alone)
MaxNameLen == 4      \* longest package name (default repository name alone)
MaxPieces == 2       \* pieces a file content is assembled from (replaceInFile alone)

(***************************************************************************)
(* String constants of the script.                                         *)
(***************************************************************************)
TokPackageName == <<"{", "{", "P", "A", "C", "K", "A", "G", "E", "_", "N", "A", "M", "E", "}", "}">>
TokRepoName == <<"{", "{", "R", "E", "P", "O", "_", "N", "A", "M", "E", "}", "}">>
TokGithubUser == <<"{", "{", "G", "I", "T", "H", "U", "B", "_", "U", "S", "E", "R", "}", "}">>
TokDescription == <<"{", "{", "D", "E", "S", "C", "R", "I", "P", "T", "I", "O", "N", "}", "}">>
TokAuthor == <<"{", "{", "A", "U", "T", "H", "O", "R", "}", "}">>
MyLib == <<"m", "y", "-", "l", "i", "b">>
DefaultDescription == <<"A", " ", "T", "y", "p", "e", "S", "c", "r", "i", "p", "t", " ", "l", "i", "b", "r", "a", "r", "y">>
OpenBraces == <<"{", "{">>
StrY == <<"y">>
StrN == <<"n">>

(***************************************************************************)
(* String primitives of the JavaScript runtime.                            *)
(***************************************************************************)
WhiteSpace == {" ", "\t"}

\* pat occurs in s at position i
MatchAt(s, pat, i) ==
    /\ i >= 1
    /\ i + Len(pat) - 1 <= Len(s)
    /\ \A k \in 1..Len(pat) : s[i + k - 1] = pat[k]

\* String.prototype.includes
Includes(s, pat) == \E i \in 1..(Len(s) + 1) : MatchAt(s, pat, i)

\* String.prototype.startsWith
StartsWith(s, pat) == MatchAt(s, pat, 1)

RECURSIVE TrimStart(_)
TrimStart(s) ==
    IF s = <<>> THEN <<>>
    ELSE IF Head(s) \in WhiteSpace THEN TrimStart(Tail(s))
    ELSE s

RECURSIVE TrimEnd(_)
TrimEnd(s) ==
    IF s = <<>> THEN <<>>
    ELSE IF s[Len(s)] \in WhiteSpace THEN TrimEnd(SubSeq(s, 1, Len(s) - 1))
    ELSE s

\* String.prototype.trim
Trim(s) == TrimEnd(TrimStart(s))

LowerChar(c) ==
    CASE c = "Y" -> "y"
      [] c = "N" -> "n"
      [] c = "O" -> "o"
      [] c = "E" -> "e"
      [] c = "S" -> "s"
      [] OTHER -> c

\* String.prototype.toLowerCase
ToLowerCase(s) == [i \in 1..Len(s) |-> LowerChar(s[i])]

\* String.prototype.split(sep) for a one-character separator:
\* the sequence of segments between separators.
RECURSIVE SplitFrom(_, _, _, _)
SplitFrom(s, sep, i, cur) ==
    IF i > Len(s) THEN <<cur>>
    ELSE IF s[i] = sep THEN <<cur>> \o SplitFrom(s, sep, i + 1, <<>>)
    ELSE SplitFrom(s, sep, i + 1, Append(cur, s[i]))

Split(s, sep) == SplitFrom(s, sep, 1, <<>>)

\* GetSubstitution of String.prototype.replaceAll for a string pattern
\* (no capture groups): "$$" is "$", "$&" the matched text, "$`" the text
\* before the match, "$'" the text after it; any other character is literal.
RECURSIVE GetSubstitution(_, _, _, _, _)
GetSubstitution(matched, str, position, replacement, k) ==
    IF k > Len(replacement) THEN <<>>
    ELSE IF replacement[k] = "$" /\ k < Len(replacement)
              /\ replacement[k + 1] \in {"$", "&", "`", "'"}
         THEN (CASE replacement[k + 1] = "$" -> <<"$">>
                 [] replacement[k + 1] = "&" -> matched
                 [] replacement[k + 1] = "`" -> SubSeq(str, 1, position - 1)
                 [] replacement[k + 1] = "'" ->
                        SubSeq(str, position + Len(matched), Len(str)))
              \o GetSubstitution(matched, str, position, replacement, k + 2)
         ELSE <<replacement[k]>>
              \o GetSubstitution(matched, str, position, replacement, k + 1)

\* String.prototype.replaceAll(searchValue, replaceValue), both strings,
\* searchValue non-empty: matches are found left to right, non-overlapping.
RECURSIVE ReplaceFrom(_, _, _, _)
ReplaceFrom(s, pat, val, i) ==
    IF i > Len(s) THEN <<>>
    ELSE IF MatchAt(s, pat, i)
         THEN GetSubstitution(pat, s, i, val, 1)
              \o ReplaceFrom(s, pat, val, i + Len(pat))
         ELSE <<s[i]>> \o ReplaceFrom(s, pat, val, i + 1)

ReplaceAll(s, pat, val) == ReplaceFrom(s, pat, val, 1)

(***************************************************************************)
(* Helper functions of the script.                                         *)
(***************************************************************************)
\* An optional argument: absent (undefined) or a string.
NoDefault == [present |-> FALSE, value |-> <<>>]
Default(s) == [present |-> TRUE, value |-> s]

\* Variant of question that does not trim the answer.
question_NoTrim(answer, defaultValue) ==
    IF answer # <<>> THEN answer
    ELSE IF defaultValue.present /\ defaultValue.value # <<>>
         THEN defaultValue.value
    ELSE <<>>

\* answer.trim() || defaultValue || ''
question(answer, defaultValue) ==
    IF Trim(answer) # <<>> THEN Trim(answer)
    ELSE IF defaultValue.present /\ defaultValue.value # <<>>
         THEN defaultValue.value
    ELSE <<>>

\* Variant of DeriveRepoName without the 'my-lib' fallback.
DeriveRepoName_NoFallback(name) ==
    IF StartsWith(name, <<"@">>)
    THEN IF Len(Split(name, "/")) >= 2 THEN Split(name, "/")[2] ELSE <<>>
    ELSE name

\* packageName.startsWith('@') ? packageName.split('/')[1] || 'my-lib' : packageName
DeriveRepoName(name) ==
    IF StartsWith(name, <<"@">>)
    THEN IF Len(Split(name, "/")) >= 2 /\ Split(name, "/")[2] # <<>>
         THEN Split(name, "/")[2]
         ELSE MyLib
    ELSE name

\* for (const [placeholder, value] of Object.entries(replacements))
\*     content = content.replaceAll(placeholder, value)
RECURSIVE ReplaceEntries(_, _, _)
ReplaceEntries(content, table, k) ==
    IF k > Len(table) THEN content
    ELSE ReplaceEntries(ReplaceAll(content, table[k].placeholder, table[k].value),
                        table, k + 1)

ReplaceContent(content, table) == ReplaceEntries(content, table, 1)

\* The table built from the answers, in the order of the object literal.
MakeReplacements(pkg, repo, user, desc, auth) ==
    << [placeholder |-> TokPackageName, value |-> pkg],
       [placeholder |-> TokRepoName,    value |-> repo],
       [placeholder |-> TokGithubUser,  value |-> user],
       [placeholder |-> TokDescription, value |-> desc],
       [placeholder |-> TokAuthor,      value |-> auth] >>

\* A file: whether it exists, its text, and for package.json the text of
\* the name field (kept apart because the script inspects it) and whether
\* scripts.setup is present; valid tells whether JSON.parse accepts it.
NoFile == [exists |-> FALSE, text |-> <<>>, name |-> <<>>, setup |-> FALSE, valid |-> FALSE]

\* An entry of the log: an operation, its argument and its outcome.
Ev(op, arg, res) == [op |-> op, arg |-> arg, res |-> res]

\* Variant of replaceInFile without the existence test: a missing file is
\* read as empty and written.
ReplaceInFile_NoExistsCheck(files, io, filePath, table) ==
    [fs |-> [files EXCEPT ![filePath].exists = TRUE,
                          ![filePath].text = ReplaceContent(@, table),
                          ![filePath].name = ReplaceContent(@, table)],
     log |-> io \o <<Ev("readFileSync", filePath, ""),
                     Ev("writeFileSync", filePath, "")>>]

\* replaceInFile(filePath, replacements): the file system and the log of
\* file operations after the call.
ReplaceInFile(files, io, filePath, table) ==
    IF ~files[filePath].exists
    THEN [fs |-> files, log |-> Append(io, Ev("existsSync", filePath, ""))]
    ELSE [fs |-> [files EXCEPT ![filePath].text = ReplaceContent(@, table),
                               ![filePath].name = ReplaceContent(@, table)],
          log |-> io \o <<Ev("existsSync", filePath, ""),
                           Ev("readFileSync", filePath, ""),
                           Ev("writeFileSync", filePath, "")>>]

(***************************************************************************)
(* The helper functions applied on their own: each specification draws the *)
(* arguments in Init and applies the function once.                        *)
(***************************************************************************)
Paths == {"package.json", ".changeset/config.json", "scripts/setup.ts", ".git"}
NotExited == -1

\* All sequences over chars of length lo..hi.
SeqsOf(chars, lo, hi) == UNION {[1..n -> chars] : n \in lo..hi}

\* The run is not started while a helper is applied on its own.
RunIdle ==
    /\ pc = "idle"
    /\ variant = 2
    /\ fs = [p \in Paths |-> NoFile]
    /\ rlOpen = TRUE
    /\ exitCode = NotExited
    /\ packageName = <<>>
    /\ defaultRepoName = <<>>
    /\ repoName = <<>>
    /\ defaultGithubUser = <<>>
    /\ githubUser = <<>>
    /\ description = <<>>
    /\ author = <<>>
    /\ replacements = <<>>
    /\ proceed = <<>>
    /\ confirm = <<>>
    /\ setupGitHub = <<>>
    /\ origin = "none"
    /\ npmToken = FALSE
    /\ githubConfigured = FALSE
    /\ npmTokenConfigured = FALSE
    /\ cfgResult = "none"
    /\ steps = <<>>
    /\ stepNum = 1
    /\ log = <<>>

runVars == <<pc, variant, fs, rlOpen, exitCode, answerVars, proceed, confirm,
             setupGitHub, ghVars, sumVars, log>>

\* ---- question ----
LineChars == {" ", "\t", "a", "N"}
QuestionDefaults == {NoDefault, Default(<<>>), Default(StrN), Default(MyLib)}

InitQuestion ==
    /\ RunIdle
    /\ fnPc = "question"
    /\ fnIn \in [answer : SeqsOf(LineChars, 0, MaxLineLen),
                 defaultValue : QuestionDefaults]
    /\ fnOut = <<>>

CallQuestion ==
    /\ fnPc = "question"
    /\ fnOut' = question(fnIn.answer, fnIn.defaultValue)
    /\ fnPc' = "questionDone"
    /\ UNCHANGED <<fnIn, runVars>>

SpecQuestion == InitQuestion /\ [][CallQuestion]_vars

\* ---- default repository name ----
NameChars == {"@", "/", "a", "b"}

InitRepoName ==
    /\ RunIdle
    /\ fnPc = "repoName"
    /\ fnIn \in [name : SeqsOf(NameChars, 1, MaxNameLen)]
    /\ fnOut = <<>>

CallDeriveRepoName ==
    /\ fnPc = "repoName"
    /\ fnOut' = DeriveRepoName(fnIn.name)
    /\ fnPc' = "repoNameDone"
    /\ UNCHANGED <<fnIn, runVars>>

SpecRepoName == InitRepoName /\ [][CallDeriveRepoName]_vars

\* ---- replaceInFile ----
\* A file content is a concatenation of pieces: placeholder tokens and
\* plain text.  A replacement value is plain text, the text of a
\* placeholder token, or text holding a '$' pattern.
ContentPieces == {TokPackageName, TokRepoName, TokGithubUser, TokDescription,
                  TokAuthor, <<"x">>}
ReplacementValues == {<<"v">>, TokPackageName, <<"$", "&">>}

RECURSIVE Flatten(_)
Flatten(ps) == IF ps = <<>> THEN <<>> ELSE Head(ps) \o Flatten(Tail(ps))

InitReplace ==
    /\ RunIdle
    /\ fnPc = "replace"
    /\ \E ps \in SeqsOf(ContentPieces, 0, MaxPieces),
          pv \in ReplacementValues, rv \in ReplacementValues,
          uv \in ReplacementValues, dv \in ReplacementValues,
          av \in ReplacementValues, ex \in BOOLEAN :
         fnIn = [pieces |-> ps,
                 filePath |-> "package.json",
                 files |-> [p \in Paths |->
                              IF p = "package.json" /\ ex
                              THEN [exists |-> TRUE, text |-> Flatten(ps),
                                    name |-> <<>>, setup |-> TRUE, valid |-> TRUE]
                              ELSE NoFile],
                 table |-> MakeReplacements(pv, rv, uv, dv, av)]
    /\ fnOut = <<>>

CallReplaceInFile ==
    /\ fnPc = "replace"
    /\ fnOut' = ReplaceInFile(fnIn.files, <<>>, fnIn.filePath, fnIn.table)
    /\ fnPc' = "replaceDone"
    /\ UNCHANGED <<fnIn, runVars>>

SpecReplace == InitReplace /\ [][CallReplaceInFile]_vars

(***************************************************************************)
(* The run of the script: run() and configureGitHub().                     *)
(***************************************************************************)
CodeStr(code) == IF code = 0 THEN "0" ELSE "1"
Spawn(cmd, code) == Ev("spawn", cmd, CodeStr(code))
Prompt(text) == Ev("question", text, "")
ExitCodes == {0, 1}

\* Lines typed at the prompts of a run.
ConfirmLines == {<<>>, <<"y">>, <<" ", "N">>, <<"n", "o">>}
PackageLines == {<<>>, <<"@", "s", "/", "a">>}
TextLines == {<<>>, <<" ", "z", " ">>}
\* The description and the author are left at their defaults.
DefaultLines == {<<>>}
GitUserNames == {<<>>, <<"u", " ">>}

\* package.json as the template ships it, and after a previous setup.
TemplatePackageJson ==
    [exists |-> TRUE, text |-> TokDescription \o TokAuthor \o TokPackageName,
     name |-> TokPackageName, setup |-> TRUE, valid |-> TRUE]
ConfiguredPackageJson ==
    [exists |-> TRUE, text |-> <<"x">>, name |-> <<"a">>, setup |-> TRUE, valid |-> TRUE]
BrokenPackageJson ==
    [exists |-> TRUE, text |-> <<"x">>, name |-> <<>>, setup |-> FALSE, valid |-> FALSE]
ChangesetConfig ==
    [exists |-> TRUE, text |-> TokGithubUser \o <<"/">> \o TokRepoName,
     name |-> <<>>, setup |-> FALSE, valid |-> TRUE]
PlainFile ==
    [exists |-> TRUE, text |-> <<>>, name |-> <<>>, setup |-> FALSE, valid |-> FALSE]

Init ==
    /\ pc = "start"
    /\ variant \in {1, 2}
    /\ \E pkg \in {NoFile, BrokenPackageJson, TemplatePackageJson, ConfiguredPackageJson},
          cs \in {NoFile, ChangesetConfig},
          git \in {NoFile, PlainFile} :
         fs = [p \in Paths |->
                 CASE p = "package.json" -> pkg
                   [] p = ".changeset/config.json" -> cs
                   [] p = "scripts/setup.ts" -> PlainFile
                   [] OTHER -> git]
    /\ rlOpen = TRUE
    /\ exitCode = NotExited
    /\ packageName = <<>>
    /\ defaultRepoName = <<>>
    /\ repoName = <<>>
    /\ defaultGithubUser = <<>>
    /\ githubUser = <<>>
    /\ description = <<>>
    /\ author = <<>>
    /\ replacements = <<>>
    /\ proceed = <<>>
    /\ confirm = <<>>
    /\ setupGitHub = <<>>
    /\ origin \in (IF fs[".git"].exists THEN {"none", "template"} ELSE {"none"})
    /\ npmToken \in BOOLEAN
    /\ githubConfigured = FALSE
    /\ npmTokenConfigured = FALSE
    /\ cfgResult = "none"
    /\ steps = <<>>
    /\ stepNum = 1
    /\ log = <<>>
    /\ fnIn = <<>>
    /\ fnOut = <<>>
    /\ fnPc = "idle"

\* rl.close(); process.exit(code)
Exit(code, events) ==
    /\ rlOpen' = FALSE
    /\ exitCode' = code
    /\ pc' = "exited"
    /\ log' = log \o events \o <<Ev("rl.close", "", ""), Ev("process.exit", CodeStr(code), "")>>

\* run().catch: console.error('Setup failed:', error); rl.close(); process.exit(1)
Catch(events) == Exit(1, events \o <<Ev("console.error", "Setup failed", "")>>)

\* Lines 376-386: the already-configured check.
Start ==
    /\ pc = "start"
    /\ LET rd == Ev("readFileSync", "package.json", "")
       IN IF ~fs["package.json"].exists \/ ~fs["package.json"].valid
          THEN /\ Catch(<<rd>>)
               /\ UNCHANGED <<proceed>>
          ELSE /\ log' = Append(log, rd)
               /\ pc' = IF Includes(fs["package.json"].name, OpenBraces)
                        THEN "askPackageName" ELSE "askContinue"
               /\ UNCHANGED <<rlOpen, exitCode, proceed>>
    /\ UNCHANGED <<variant, fs, answerVars, confirm, setupGitHub,
                   ghVars, sumVars, fnVars>>

AskContinue ==
    /\ pc = "askContinue"
    /\ \E line \in ConfirmLines :
         LET answer == question(line, Default(StrN))
         IN /\ proceed' = answer
            /\ IF ToLowerCase(answer) # StrY
               THEN Exit(0, <<Prompt("Continue anyway? (y/N)")>>)
               ELSE /\ log' = Append(log, Prompt("Continue anyway? (y/N)"))
                    /\ pc' = "askPackageName"
                    /\ UNCHANGED <<rlOpen, exitCode>>
    /\ UNCHANGED <<variant, fs, answerVars, confirm, setupGitHub,
                   ghVars, sumVars, fnVars>>

\* Lines 391-399
AskPackageName ==
    /\ pc = "askPackageName"
    /\ \E line \in PackageLines :
         /\ packageName' = question(line, Default(MyLib))
         /\ defaultRepoName' = DeriveRepoName(packageName')
    /\ log' = Append(log, Prompt("Package name"))
    /\ pc' = "askRepoName"
    /\ UNCHANGED <<variant, fs, rlOpen, exitCode, repoName, defaultGithubUser,
                   githubUser, description, author, replacements, proceed,
                   confirm, setupGitHub, ghVars, sumVars, fnVars>>

\* Line 400
AskRepoName ==
    /\ pc = "askRepoName"
    /\ \E line \in TextLines : repoName' = question(line, Default(defaultRepoName))
    /\ log' = Append(log, Prompt("Repository name"))
    /\ pc' = "gitConfigUser"
    /\ UNCHANGED <<variant, fs, rlOpen, exitCode, packageName, defaultRepoName,
                   defaultGithubUser, githubUser, description, author,
                   replacements, proceed, confirm, setupGitHub,
                   ghVars, sumVars, fnVars>>

\* Lines 402-409: the trimmed output of git config user.name, which is
\* empty when the command fails or the spawn throws; the exit code is not
\* inspected.
GitConfigUser ==
    /\ pc = "gitConfigUser"
    /\ \E out \in GitUserNames : defaultGithubUser' = Trim(out)
    /\ log' = Append(log, Ev("spawn", "git config user.name", ""))
    /\ pc' = "askGithubUser"
    /\ UNCHANGED <<variant, fs, rlOpen, exitCode, packageName, defaultRepoName,
                   repoName, githubUser, description, author, replacements,
                   proceed, confirm, setupGitHub, ghVars, sumVars,
                   fnVars>>

\* Line 410
AskGithubUser ==
    /\ pc = "askGithubUser"
    /\ \E line \in TextLines : githubUser' = question(line, Default(defaultGithubUser))
    /\ log' = Append(log, Prompt("GitHub username/org"))
    /\ pc' = "askDescription"
    /\ UNCHANGED <<variant, fs, rlOpen, exitCode, packageName, defaultRepoName,
                   repoName, defaultGithubUser, description, author,
                   replacements, proceed, confirm, setupGitHub,
                   ghVars, sumVars, fnVars>>

\* Lines 412-415
AskDescription ==
    /\ pc = "askDescription"
    /\ \E line \in DefaultLines : description' = question(line, Default(DefaultDescription))
    /\ log' = Append(log, Prompt("Project description"))
    /\ pc' = "askAuthor"
    /\ UNCHANGED <<variant, fs, rlOpen, exitCode, packageName, defaultRepoName,
                   repoName, defaultGithubUser, githubUser, author,
                   replacements, proceed, confirm, setupGitHub,
                   ghVars, sumVars, fnVars>>

\* Line 417
AskAuthor ==
    /\ pc = "askAuthor"
    /\ \E line \in DefaultLines : author' = question(line, Default(defaultGithubUser))
    /\ log' = Append(log, Prompt("Author name"))
    /\ pc' = "askConfirm"
    /\ UNCHANGED <<variant, fs, rlOpen, exitCode, packageName, defaultRepoName,
                   repoName, defaultGithubUser, githubUser, description,
                   replacements, proceed, confirm, setupGitHub,
                   ghVars, sumVars, fnVars>>

\* Lines 425-441
AskConfirm ==
    /\ pc = "askConfirm"
    /\ \E line \in ConfirmLines :
         LET answer == question(line, Default(StrY))
         IN /\ confirm' = answer
            /\ IF ToLowerCase(answer) = StrN
               THEN /\ Exit(0, <<Prompt("Proceed with setup? (Y/n)")>>)
                    /\ UNCHANGED replacements
               ELSE /\ log' = Append(log, Prompt("Proceed with setup? (Y/n)"))
                    /\ replacements' = MakeReplacements(packageName, repoName,
                                           githubUser, description, author)
                    /\ pc' = "replacePackageJson"
                    /\ UNCHANGED <<rlOpen, exitCode>>
    /\ UNCHANGED <<variant, fs, packageName, defaultRepoName, repoName,
                   defaultGithubUser, githubUser, description, author, proceed,
                   setupGitHub, ghVars, sumVars, fnVars>>

\* Line 443
ReplacePackageJson ==
    /\ pc = "replacePackageJson"
    /\ LET r == ReplaceInFile(fs, log, "package.json", replacements)
       IN fs' = r.fs /\ log' = r.log
    /\ pc' = "replaceChangeset"
    /\ UNCHANGED <<variant, rlOpen, exitCode, answerVars, proceed, confirm,
                   setupGitHub, ghVars, sumVars, fnVars>>

\* Line 444
ReplaceChangeset ==
    /\ pc = "replaceChangeset"
    /\ LET r == ReplaceInFile(fs, log, ".changeset/config.json", replacements)
       IN fs' = r.fs /\ log' = r.log
    /\ pc' = "install"
    /\ UNCHANGED <<variant, rlOpen, exitCode, answerVars, proceed, confirm,
                   setupGitHub, ghVars, sumVars, fnVars>>

\* Variant of Install that goes on after a failed installation.
Install_Continues ==
    /\ pc = "install"
    /\ \E code \in ExitCodes :
         /\ log' = Append(log, Spawn("bun install", code))
         /\ pc' = "gitInit"
         /\ UNCHANGED <<rlOpen, exitCode>>
    /\ UNCHANGED <<variant, fs, answerVars, proceed, confirm,
                   setupGitHub, ghVars, sumVars, fnVars>>

\* Lines 446-457
Install ==
    /\ pc = "install"
    /\ \E code \in ExitCodes :
         IF code # 0
         THEN Exit(1, <<Spawn("bun install", code),
                        Ev("console.error", "Failed to install dependencies", "")>>)
         ELSE /\ log' = Append(log, Spawn("bun install", code))
              /\ pc' = "gitInit"
              /\ UNCHANGED <<rlOpen, exitCode>>
    /\ UNCHANGED <<variant, fs, answerVars, proceed, confirm, setupGitHub, ghVars, sumVars, fnVars>>

\* Lines 459-463
GitInit ==
    /\ pc = "gitInit"
    /\ IF ~fs[".git"].exists
       THEN \E code \in ExitCodes :
              /\ log' = log \o <<Ev("existsSync", ".git", ""), Spawn("git init", code)>>
              /\ fs' = IF code = 0 THEN [fs EXCEPT ![".git"] = PlainFile] ELSE fs
       ELSE /\ log' = Append(log, Ev("existsSync", ".git", ""))
            /\ UNCHANGED fs
    /\ pc' = "removeSetup"
    /\ UNCHANGED <<variant, rlOpen, exitCode, answerVars, proceed, confirm,
                   setupGitHub, ghVars, sumVars, fnVars>>

\* Lines 465-475: unlinkSync may throw (the file cannot be deleted), and
\* every exception of the block is swallowed.
RemoveSetup ==
    /\ pc = "removeSetup"
    /\ \/ /\ log' = Append(log, Ev("unlinkSync", "scripts/setup.ts", "throws"))
          /\ UNCHANGED fs
       \/ /\ fs["scripts/setup.ts"].exists
          /\ log' = log \o <<Ev("unlinkSync", "scripts/setup.ts", ""),
                              Ev("readFileSync", "package.json", ""),
                              Ev("writeFileSync", "package.json", "")>>
          /\ fs' = [fs EXCEPT !["scripts/setup.ts"] = NoFile,
                              !["package.json"].setup = FALSE]
    /\ pc' = "askCommit"
    /\ UNCHANGED <<variant, rlOpen, exitCode, answerVars, proceed, confirm,
                   setupGitHub, ghVars, sumVars, fnVars>>

\* Lines 477-485
AskCommit ==
    /\ pc = "askCommit"
    /\ \E line \in ConfirmLines :
         LET answer == question(line, Default(StrY))
         IN IF ToLowerCase(answer) # StrN
            THEN log' = log \o <<Prompt("Create initial commit? (Y/n)"),
                                 Ev("spawn", "git add .", ""),
                                 Ev("spawn", "git commit", "")>>
            ELSE log' = Append(log, Prompt("Create initial commit? (Y/n)"))
    /\ pc' = IF variant = 1 THEN "summary" ELSE "hasGitHubCLI"
    /\ UNCHANGED <<variant, fs, rlOpen, exitCode, answerVars, proceed, confirm,
                   setupGitHub, ghVars, sumVars, fnVars>>

\* Lines 207-213 and 490, 577-582
HasGitHubCLI ==
    /\ pc = "hasGitHubCLI"
    /\ \E code \in ExitCodes :
         /\ log' = Append(log, Spawn("gh auth status", code))
         /\ pc' = IF code = 0 THEN "askSetupGitHub" ELSE "summary"
    /\ UNCHANGED <<variant, fs, rlOpen, exitCode, answerVars, proceed, confirm,
                   setupGitHub, ghVars, sumVars, fnVars>>

\* Lines 491-496
AskSetupGitHub ==
    /\ pc = "askSetupGitHub"
    /\ \E line \in ConfirmLines :
         LET answer == question(line, Default(StrY))
         IN /\ setupGitHub' = answer
            /\ pc' = IF ToLowerCase(answer) # StrN THEN "repoView" ELSE "summary"
    /\ log' = Append(log, Prompt("Create GitHub repo and configure settings? (Y/n)"))
    /\ UNCHANGED <<variant, fs, rlOpen, exitCode, answerVars, proceed, confirm,
                   ghVars, sumVars, fnVars>>

\* Lines 498-504
RepoView ==
    /\ pc = "repoView"
    /\ \E code \in ExitCodes :
         /\ log' = Append(log, Spawn("gh repo view", code))
         /\ pc' = IF code # 0 THEN "repoCreate" ELSE "remoteGetUrl"
    /\ UNCHANGED <<variant, fs, rlOpen, exitCode, answerVars, proceed, confirm,
                   setupGitHub, ghVars, sumVars, fnVars>>

\* Lines 505-526: gh repo create --public --source=. --push --description
RepoCreate ==
    /\ pc = "repoCreate"
    /\ \E code \in ExitCodes :
         /\ log' = Append(log, Spawn("gh repo create --public --source=. --push --description", code))
         /\ origin' = IF code = 0 THEN "own" ELSE origin
         /\ pc' = IF code # 0 THEN "summary" ELSE "cfgMerge"
    /\ UNCHANGED <<variant, fs, rlOpen, exitCode, answerVars, proceed, confirm,
                   setupGitHub, npmToken, githubConfigured,
                   npmTokenConfigured, cfgResult, sumVars, fnVars>>

\* Lines 538-547: git remote get-url origin fails when there is no origin.
RemoteGetUrl ==
    /\ pc = "remoteGetUrl"
    /\ LET code == IF origin = "none" THEN 1 ELSE 0
       IN /\ log' = Append(log, Spawn("git remote get-url origin", code))
          /\ pc' = IF code # 0 THEN "remoteAdd" ELSE "push"
    /\ UNCHANGED <<variant, fs, rlOpen, exitCode, answerVars, proceed, confirm,
                   setupGitHub, ghVars, sumVars, fnVars>>

\* Lines 548-554: the exit code is not inspected.
RemoteAdd ==
    /\ pc = "remoteAdd"
    /\ log' = Append(log, Ev("spawn", "git remote add origin", ""))
    /\ origin' \in {"own", origin}
    /\ pc' = "push"
    /\ UNCHANGED <<variant, fs, rlOpen, exitCode, answerVars, proceed, confirm,
                   setupGitHub, npmToken, githubConfigured,
                   npmTokenConfigured, cfgResult, sumVars, fnVars>>

\* Variant of Push that configures whatever the push returned.
Push_IgnoresExit ==
    /\ pc = "push"
    /\ \E code \in ExitCodes :
         /\ log' = Append(log, Spawn("git push -u origin main", code))
         /\ pc' = "cfgMerge"
    /\ UNCHANGED <<variant, fs, rlOpen, exitCode, answerVars, proceed, confirm,
                   setupGitHub, ghVars, sumVars, fnVars>>

\* Lines 557-574
Push ==
    /\ pc = "push"
    /\ \E code \in ExitCodes :
         /\ log' = Append(log, Spawn("git push -u origin main", code))
         /\ pc' = IF code = 0 THEN "cfgMerge" ELSE "summary"
    /\ UNCHANGED <<variant, fs, rlOpen, exitCode, answerVars, proceed, confirm,
                   setupGitHub, ghVars, sumVars, fnVars>>

\* configureGitHub, lines 239-262: the merge settings; a failure only warns.
CfgMerge ==
    /\ pc = "cfgMerge"
    /\ \E code \in ExitCodes :
         log' = log \o <<Ev("call", "configureGitHub", ""),
                         Spawn("gh api repos PATCH", code)>>
    /\ pc' = "cfgProtect"
    /\ UNCHANGED <<variant, fs, rlOpen, exitCode, answerVars, proceed, confirm,
                   setupGitHub, ghVars, sumVars, fnVars>>

\* Outcomes of the branch-protection call: exit 0, a non-zero exit whose
\* stderr includes 'Not Found', and any other non-zero exit.
ProtectionResults == {"0", "1:Not Found", "1:other"}

\* Variant of CfgProtect that treats 'Not Found' as a warning and goes on.
CfgProtect_NotFoundWarns ==
    /\ pc = "cfgProtect"
    /\ \E res \in ProtectionResults :
         /\ log' = Append(log, Ev("spawn", "gh api branches/main/protection PUT", res))
         /\ IF res = "1:other"
            THEN /\ cfgResult' = "false"
                 /\ pc' = "summary"
            ELSE /\ pc' = "cfgSecret"
                 /\ UNCHANGED cfgResult
    /\ UNCHANGED <<variant, fs, rlOpen, exitCode, answerVars, proceed, confirm,
                   setupGitHub, origin, npmToken,
                   githubConfigured, npmTokenConfigured, sumVars, fnVars>>

\* configureGitHub, lines 264-316: branch protection; on a non-zero exit
\* the function returns false, and the caller (lines 528-533, 567-571)
\* leaves githubConfigured and npmTokenConfigured as they are.
CfgProtect ==
    /\ pc = "cfgProtect"
    /\ \E res \in ProtectionResults :
         /\ log' = Append(log, Ev("spawn", "gh api branches/main/protection PUT", res))
         /\ IF res # "0"
            THEN /\ cfgResult' = "false"
                 /\ pc' = "summary"
            ELSE /\ pc' = "cfgSecret"
                 /\ UNCHANGED cfgResult
    /\ UNCHANGED <<variant, fs, rlOpen, exitCode, answerVars, proceed, confirm,
                   setupGitHub, origin, npmToken,
                   githubConfigured, npmTokenConfigured, sumVars, fnVars>>

\* Variant of CfgSecret that records the secret as configured whatever
\* gh secret set returned.
CfgSecret_IgnoresExit ==
    /\ pc = "cfgSecret"
    /\ IF npmToken
       THEN \E code \in ExitCodes :
              /\ log' = Append(log, Spawn("gh secret set NPM_TOKEN", code))
              /\ npmTokenConfigured' = TRUE
       ELSE UNCHANGED <<log, npmTokenConfigured>>
    /\ cfgResult' = "object"
    /\ githubConfigured' = TRUE
    /\ pc' = "summary"
    /\ UNCHANGED <<variant, fs, rlOpen, exitCode, answerVars, proceed, confirm,
                   setupGitHub, origin, npmToken, sumVars, fnVars>>

\* configureGitHub, lines 318-337, and the caller's use of the result
\* (lines 529-532, 568-571).
CfgSecret ==
    /\ pc = "cfgSecret"
    /\ IF npmToken
       THEN \E code \in ExitCodes :
              /\ log' = Append(log, Spawn("gh secret set NPM_TOKEN", code))
              /\ npmTokenConfigured' = (code = 0)
       ELSE UNCHANGED <<log, npmTokenConfigured>>
    /\ cfgResult' = "object"
    /\ githubConfigured' = TRUE
    /\ pc' = "summary"
    /\ UNCHANGED <<variant, fs, rlOpen, exitCode, answerVars, proceed, confirm,
                   setupGitHub, origin, npmToken, sumVars, fnVars>>

\* A line of the next-steps list: headings carry their number, the other
\* lines carry 0.
Heading(n, text) == [num |-> n, text |-> text]
Line(text) == [num |-> 0, text |-> text]

\* Lines 160-175: the list of the first revision, printed as written.
StepsV1 ==
    << Heading(1, "Push to GitHub:"),
       Line("git remote add origin"),
       Line("git push -u origin main"),
       Heading(2, "Configure branch protection:"),
       Line("settings/branches"),
       Heading(3, "For npm publishing (first time):"),
       Line("- Add NPM_TOKEN secret to GitHub repo settings"),
       Line("- After first publish, configure OIDC trusted publishing at:"),
       Line("npmjs.com/package/access"),
       Heading(4, "Start coding:"),
       Line("bun dev"),
       Line("bun test"),
       Line("bun run build") >>

\* Variant of BuildSteps with the number of the last heading written out
\* for the full list.
BuildSteps_Hardcoded(ghConfigured, tokenConfigured) ==
    LET s1 == IF ~ghConfigured
              THEN << Heading(1, "Push to GitHub:"),
                      Heading(2, "Configure branch protection:"),
                      Heading(3, "Configure repo settings:") >>
              ELSE <<>>
        n1 == IF ~ghConfigured THEN 4 ELSE 1
        s2 == IF ~tokenConfigured
              THEN << Heading(n1, "For npm publishing (first time):") >>
              ELSE << Heading(n1, "For npm publishing:"),
                      Line("- NPM_TOKEN secret already configured!") >>
    IN [steps |-> s1 \o s2 \o << Heading(5, "Start coding:") >>, stepNum |-> 5]

\* Lines 587-638: the list and the final value of stepNum.
BuildSteps(ghConfigured, tokenConfigured) ==
    LET n0 == 1
        s1 == IF ~ghConfigured
              THEN << Heading(n0, "Push to GitHub:"),
                      Line("git remote add origin"),
                      Line("git push -u origin main"),
                      Heading(n0 + 1, "Configure branch protection:"),
                      Line("settings/branches"),
                      Line("- Enable Require pull request before merging"),
                      Line("- Enable Require status checks to pass"),
                      Line("- Enable Require linear history"),
                      Heading(n0 + 2, "Configure repo settings:"),
                      Line("settings"),
                      Line("- Allow squash merging only"),
                      Line("- Enable Automatically delete head branches"),
                      Line("- Enable Allow auto-merge") >>
              ELSE <<>>
        n1 == IF ~ghConfigured THEN n0 + 3 ELSE n0
        s2 == IF ~tokenConfigured
              THEN << Heading(n1, "For npm publishing (first time):"),
                      Line("gh secret set NPM_TOKEN --repo"),
                      Line("- After first publish, configure OIDC trusted publishing at:"),
                      Line("npmjs.com/package/access") >>
              ELSE << Heading(n1, "For npm publishing:"),
                      Line("- NPM_TOKEN secret already configured!"),
                      Line("- After first publish, configure OIDC trusted publishing at:"),
                      Line("npmjs.com/package/access") >>
        n2 == n1 + 1
        s3 == << Heading(n2, "Start coding:"),
                 Line("bun dev"),
                 Line("bun test"),
                 Line("bun run build") >>
    IN [steps |-> s1 \o s2 \o s3, stepNum |-> n2]

\* Lines 584-643 (160-177 in the first revision): print the list, close
\* the interface; the process then ends with status 0.
Summary ==
    /\ pc = "summary"
    /\ IF variant = 1
       THEN /\ steps' = StepsV1
            /\ UNCHANGED stepNum
       ELSE /\ steps' = BuildSteps(githubConfigured, npmTokenConfigured).steps
            /\ stepNum' = BuildSteps(githubConfigured, npmTokenConfigured).stepNum
    /\ log' = log \o <<Ev("console.log", "Next steps", ""), Ev("rl.close", "", "")>>
    /\ rlOpen' = FALSE
    /\ exitCode' = 0
    /\ pc' = "done"
    /\ UNCHANGED <<variant, fs, answerVars, proceed, confirm, setupGitHub, ghVars, fnVars>>

Next ==
    \/ Start
    \/ AskContinue
    \/ AskPackageName
    \/ AskRepoName
    \/ GitConfigUser
    \/ AskGithubUser
    \/ AskDescription
    \/ AskAuthor
    \/ AskConfirm
    \/ ReplacePackageJson
    \/ ReplaceChangeset
    \/ Install
    \/ GitInit
    \/ RemoveSetup
    \/ AskCommit
    \/ HasGitHubCLI
    \/ AskSetupGitHub
    \/ RepoView
    \/ RepoCreate
    \/ RemoteGetUrl
    \/ RemoteAdd
    \/ Push
    \/ CfgMerge
    \/ CfgProtect
    \/ CfgSecret
    \/ Summary

Spec == Init /\ [][Next]_vars

(***************************************************************************)
(* Properties of the helper functions.                                     *)
(***************************************************************************)
HasText(s) == \E i \in 1..Len(s) : s[i] \notin WhiteSpace

\* C8: question returns the input line without its surrounding whitespace
\* when something is left, and otherwise the default value unchanged, or
\* the empty string when there is no default.
C8_QuestionTrimOrDefault ==
    fnPc = "questionDone" =>
        LET a == fnIn.answer
            d == fnIn.defaultValue
        IN IF HasText(a)
           THEN \E i \in 1..Len(a), j \in 1..Len(a) :
                    /\ i <= j
                    /\ a[i] \notin WhiteSpace
                    /\ a[j] \notin WhiteSpace
                    /\ \A k \in 1..(i - 1) : a[k] \in WhiteSpace
                    /\ \A k \in (j + 1)..Len(a) : a[k] \in WhiteSpace
                    /\ fnOut = SubSeq(a, i, j)
           ELSE fnOut = (IF d.present THEN d.value ELSE <<>>)

\* A whitespace-only line was answered at a prompt with a default, and a
\* padded line was answered too.
C8_Witness ==
    /\ fnPc = "questionDone"
    /\ fnIn.answer # <<>>
    /\ ~HasText(fnIn.answer)
    /\ fnIn.defaultValue = Default(MyLib)
    /\ fnOut = MyLib

\* Position of the first separator of a name that has one.
FirstSep(name) ==
    CHOOSE i \in 1..Len(name) :
        name[i] = "/" /\ \A k \in 1..(i - 1) : name[k] # "/"

\* Position of the separator following position i, or one past the end.
NextSepOrEnd(name, i) ==
    CHOOSE j \in (i + 1)..(Len(name) + 1) :
        /\ j = Len(name) + 1 \/ name[j] = "/"
        /\ \A k \in (i + 1)..(j - 1) : name[k] # "/"

HasSep(name) == \E i \in 1..Len(name) : name[i] = "/"

\* The portion of the name after its separator (nothing without one).
AfterSeparator(name) ==
    IF HasSep(name) THEN SubSeq(name, FirstSep(name) + 1, Len(name)) ELSE <<>>

\* The text between the first separator and the next one (or the end).
SecondSegment(name) ==
    IF HasSep(name)
    THEN SubSeq(name, FirstSep(name) + 1, NextSepOrEnd(name, FirstSep(name)) - 1)
    ELSE <<>>

\* C2 as stated: for a scoped name the default repository name is the
\* portion after the separator, for any other name the name itself.
C2_Original ==
    fnPc = "repoNameDone" =>
        fnOut = (IF fnIn.name[1] = "@" THEN AfterSeparator(fnIn.name)
                 ELSE fnIn.name)

\* C2 amended: for a scoped name the default repository name is the text
\* between the first separator and the next one (or the end) when that
\* text is non-empty and 'my-lib' otherwise; for any other name it is the
\* name itself.
C2_DefaultRepoName ==
    fnPc = "repoNameDone" =>
        fnOut = (IF fnIn.name[1] = "@"
                 THEN (IF SecondSegment(fnIn.name) # <<>>
                       THEN SecondSegment(fnIn.name) ELSE MyLib)
                 ELSE fnIn.name)

\* A scoped name with a scope and a package part was derived.
C2_Witness ==
    /\ fnPc = "repoNameDone"
    /\ fnIn.name = <<"@", "a", "/", "b">>
    /\ fnOut = <<"b">>

\* What replacing every token occurrence by its value would give.
ValueOf(table, piece) ==
    IF \E k \in 1..Len(table) : table[k].placeholder = piece
    THEN table[CHOOSE k \in 1..Len(table) : table[k].placeholder = piece].value
    ELSE piece

ExpectedContent(ps, table) == Flatten([i \in 1..Len(ps) |-> ValueOf(table, ps[i])])

\* C1 as stated: after replaceInFile on an existing file the content holds
\* no placeholder token of the table, and every token occurrence has been
\* replaced by the value of that token.
C1_Original ==
    (fnPc = "replaceDone" /\ fnIn.files[fnIn.filePath].exists) =>
        LET out == fnOut.fs[fnIn.filePath].text
        IN /\ \A k \in 1..Len(fnIn.table) :
                  ~Includes(out, fnIn.table[k].placeholder)
           /\ out = ExpectedContent(fnIn.pieces, fnIn.table)

(***************************************************************************)
(* Properties of the run.                                                  *)
(***************************************************************************)
Ran(cmd) == \E i \in 1..Len(log) : log[i].op = "spawn" /\ log[i].arg = cmd
RanWith(cmd, res) == \E i \in 1..Len(log) : log[i] = Ev("spawn", cmd, res)
TimesRan(cmd) == Cardinality({i \in 1..Len(log) : log[i].op = "spawn" /\ log[i].arg = cmd})
Did(op) == \E i \in 1..Len(log) : log[i].op = op
Called(fn) == \E i \in 1..Len(log) : log[i] = Ev("call", fn, "")
TimesCalled(fn) == Cardinality({i \in 1..Len(log) : log[i] = Ev("call", fn, "")})

CmdCreate == "gh repo create --public --source=. --push --description"
CmdProtect == "gh api branches/main/protection PUT"
CmdMerge == "gh api repos PATCH"
CmdSecret == "gh secret set NPM_TOKEN"
CmdPush == "git push -u origin main"

\* An answer that means no.
MeansNo(answer) == ToLowerCase(answer) \in {<<"n">>, <<"n", "o">>}

\* Something was changed: a file written or deleted, dependencies
\* installed, a repository initialised, a commit made.
Mutated ==
    \/ Did("writeFileSync")
    \/ Did("unlinkSync")
    \/ Ran("bun install")
    \/ Ran("git init")
    \/ Ran("git add .")
    \/ Ran("git commit")

\* C3 as stated: once 'Continue anyway? (y/N)' or 'Proceed with setup?
\* (Y/n)' is answered with an answer that means no, the process has exited
\* with status 0 and nothing was changed.
C3_Original ==
    (MeansNo(proceed) \/ MeansNo(confirm)) =>
        (pc = "exited" /\ exitCode = 0 /\ ~Mutated)

\* C4: when the branch-protection call fails with 'Not Found',
\* configureGitHub returns false, the run is not marked configured, and
\* the secret is never registered, with or without NPM_TOKEN and whatever
\* the merge-settings call returned.
C4_NotFoundAborts ==
    RanWith(CmdProtect, "1:Not Found") =>
        /\ cfgResult = "false"
        /\ ~githubConfigured
        /\ ~npmTokenConfigured
        /\ ~Ran(CmdSecret)
        /\ pc \in {"summary", "done"}

\* The run ended after a 'Not Found' that followed a failed merge-settings
\* call, with NPM_TOKEN set.
C4_Witness ==
    /\ pc = "done"
    /\ npmToken
    /\ RanWith(CmdMerge, "1")
    /\ RanWith(CmdProtect, "1:Not Found")

InstallFailed == RanWith("bun install", "1")

\* C5: a failed bun install ends the process at once with status 1, the
\* interface closed before the exit and nothing run after the install;
\* and status 1 comes only from there or from an exception caught at the
\* top level.
C5_InstallFailureHalts ==
    /\ InstallFailed =>
         /\ pc = "exited"
         /\ exitCode = 1
         /\ ~rlOpen
         /\ Len(log) >= 4
         /\ SubSeq(log, Len(log) - 3, Len(log)) =
              << Spawn("bun install", 1),
                 Ev("console.error", "Failed to install dependencies", ""),
                 Ev("rl.close", "", ""),
                 Ev("process.exit", "1", "") >>
    /\ exitCode = 1 =>
         \/ InstallFailed
         \/ \E i \in 1..Len(log) : log[i] = Ev("console.error", "Setup failed", "")

\* bun install failed in a run whose files had been configured.
C5_Witness ==
    /\ InstallFailed
    /\ exitCode = 1
    /\ Did("writeFileSync")

\* C6 as stated: when the repository is absent, the creation command runs
\* with no pre-existing remote link 'origin' left, and configureGitHub runs
\* exactly when the creation command exits 0.
C6_Original ==
    /\ pc = "repoCreate" => origin = "none"
    /\ (pc \in {"summary", "done"} /\ Ran(CmdCreate)) =>
         (Called("configureGitHub") <=> RanWith(CmdCreate, "0"))

\* C7: replaceInFile on a missing file only tests for the file: the files
\* are left as they are, nothing is read or written, no error ends the
\* run, and the run goes on to the next step.
C7_MissingFileNoOp ==
    [][(pc = "replaceChangeset" /\ ~fs[".changeset/config.json"].exists) =>
          /\ fs' = fs
          /\ log' = Append(log, Ev("existsSync", ".changeset/config.json", ""))
          /\ exitCode' = exitCode
          /\ rlOpen' = rlOpen
          /\ pc' = "install"]_vars

\* replaceInFile was just applied to the missing changeset configuration.
C7_Witness ==
    /\ pc = "install"
    /\ ~fs[".changeset/config.json"].exists
    /\ log[Len(log)] = Ev("existsSync", ".changeset/config.json", "")
    /\ Did("writeFileSync")

Headings(list) == SelectSeq(list, LAMBDA l : l.num # 0)

\* C9: the headings of the printed list are numbered 1, 2, ..., k in
\* order, k being the number of sections, and the last one is 'Start
\* coding'.
C9_Numbering ==
    pc = "done" =>
        LET hs == Headings(steps)
        IN /\ Len(hs) >= 1
           /\ \A i \in 1..Len(hs) : hs[i].num = i
           /\ hs[Len(hs)].text = "Start coding:"
           /\ \A i \in 1..(Len(hs) - 1) : hs[i].text # "Start coding:"

\* The list was printed with the GitHub sections omitted and the secret
\* registered.
C9_Witness ==
    /\ pc = "done"
    /\ githubConfigured
    /\ npmTokenConfigured
    /\ Len(Headings(steps)) = 2

Declined == ToLowerCase(setupGitHub) = StrN

Listed(text) == \E i \in 1..Len(steps) : steps[i].text = text
PushSucceeded == RanWith(CmdPush, "0") \/ RanWith(CmdCreate, "0")
ProtectionSucceeded == RanWith(CmdProtect, "0")

\* C11: in the printed list the manual sections 'Push to GitHub' and
\* 'Configure branch protection' (and, in the revision with the GitHub
\* phase, 'Configure repo settings') are left out exactly when the push
\* succeeded and the branch-protection call exited 0, which is when
\* configureGitHub returned its result object; 'NPM_TOKEN secret already
\* configured!' is listed exactly when gh secret set ran and exited 0; and
\* at any time npmTokenConfigured implies githubConfigured, which implies
\* a successful push and a successful branch-protection call.
C11_ListReflectsCompletion ==
    /\ npmTokenConfigured => githubConfigured
    /\ githubConfigured =>
         (PushSucceeded /\ ProtectionSucceeded /\ cfgResult = "object")
    /\ npmTokenConfigured <=> RanWith(CmdSecret, "0")
    /\ pc = "done" =>
         /\ ~Listed("Push to GitHub:") <=> (PushSucceeded /\ ProtectionSucceeded)
         /\ ~Listed("Configure branch protection:")
              <=> (PushSucceeded /\ ProtectionSucceeded)
         /\ variant = 2 =>
              (~Listed("Configure repo settings:")
                 <=> (PushSucceeded /\ ProtectionSucceeded))
         /\ (PushSucceeded /\ ProtectionSucceeded) <=> cfgResult = "object"
         /\ Listed("- NPM_TOKEN secret already configured!")
              <=> RanWith(CmdSecret, "0")
         /\ Listed("For npm publishing (first time):")
              <=> ~RanWith(CmdSecret, "0")

\* The list was printed after a configuration that succeeded while the
\* registration of the secret failed.
C11_Witness ==
    /\ pc = "done"
    /\ githubConfigured
    /\ RanWith(CmdSecret, "1")
    /\ ~Listed("Push to GitHub:")
    /\ Listed("For npm publishing (first time):")

====
